---- MODULE Spec2Model ----
(***************************************************************************)
(* Staged consolidation pipeline of puffdapaz/TCC (src/backend.py):        *)
(* bronze_fetch -> silver_transform -> join_list -> gold_finish, followed  *)
(* by analyze_data, the DuckDB read-back and the geodata merge of main;   *)
(* and the gold_finish of the earlier version, src/maybev2v1.py.           *)
(*                                                                         *)
(* A pandas DataFrame is a record [cols, ktype, rows]: cols is the         *)
(* sequence of column labels, rows the sequence of rows (functions from    *)
(* column label to cell) and ktype the dtype of the municipality-code      *)
(* column ("str" for object/str, "int" for int64).  A str code is the      *)
(* sequence of its decimal digits, an int code is the number itself.       *)
(* Numeric cells are fixed-point integers (thousandths of the column's     *)
(* unit); NaN is the missing marker.                                       *)
(***************************************************************************)
EXTENDS Integers, Sequences, FiniteSets, TLC

\* Python None: the absent result of a stage.
None == [none |-> TRUE]

\* pandas missing marker of a cell (NaN); real cell values are >= 0.
NaN == -1

\* A raw cell holding text that float() cannot parse.
Unparsable == -2

Range(f) == {f[i] : i \in DOMAIN f}

\* True when the label sequence has a label twice.
HasDuplicates(cols) == \E i, j \in DOMAIN cols : i # j /\ cols[i] = cols[j]

(***************************************************************************)
(* Conversions of the municipality code.                                   *)
(***************************************************************************)
RECURSIVE Digits(_)
\* str(n): the decimal digits of n, most significant first.
Digits(n) == IF n < 10 THEN <<n>> ELSE Append(Digits(n \div 10), n % 10)

RECURSIVE ToInt(_)
\* int(s) of a digit string.
ToInt(s) == IF s = <<>> THEN 0 ELSE 10 * ToInt(SubSeq(s, 1, Len(s) - 1)) + s[Len(s)]

RECURSIVE LexLess(_, _)
\* Python's < on two strings (lexicographic).
LexLess(a, b) ==
    IF a = <<>> THEN b # <<>>
    ELSE IF b = <<>> THEN FALSE
    ELSE IF Head(a) # Head(b) THEN Head(a) < Head(b)
    ELSE LexLess(Tail(a), Tail(b))

\* Order of two codes of a column of dtype ktype.
CodeLess(ktype, a, b) == IF ktype = "str" THEN LexLess(a, b) ELSE a < b

\* df['CodMunIBGE'].astype(str)
astype_str(df) ==
    [cols |-> df.cols,
     ktype |-> "str",
     rows |-> [i \in DOMAIN df.rows |->
                 [df.rows[i] EXCEPT !["CodMunIBGE"] =
                     IF df.ktype = "int" THEN Digits(@) ELSE @]]]

\* round-half-to-even of n / 10 (numpy's round drops one decimal digit here).
RoundHalfEven10(n) ==
    LET q == n \div 10
        r == n % 10
    IN  IF r < 5 THEN q
        ELSE IF r > 5 THEN q + 1
        ELSE IF q % 2 = 0 THEN q ELSE q + 1

(***************************************************************************)
(* Configuration of main.                                                  *)
(***************************************************************************)
\* The artifact names in the order main processes them.
data_series == <<"PIB_2010.parquet", "RecCorr_2010.parquet",
                 "População_2010.parquet", "Municípios.parquet",
                 "IDHM_2010.parquet">>

\* The value column each recipe of silver_transform produces.
ValueColumn(filename) ==
    CASE filename = "PIB_2010.parquet" -> "PIB 2010 (R$)"
      [] filename = "RecCorr_2010.parquet" -> "Receitas Correntes 2010 (R$)"
      [] filename = "População_2010.parquet" -> "Habitantes 2010"
      [] filename = "Municípios.parquet" -> "Município"
      [] filename = "IDHM_2010.parquet" -> "IDHM 2010"

order_set == <<"CodMunIBGE", "Município", "Habitantes 2010", "IDHM 2010",
               "Receitas Correntes 2010 (R$)", "PIB 2010 (R$)",
               "Carga Tributária Municipal 2010">>

(***************************************************************************)
(* bronze_fetch and silver_transform.                                      *)
(*                                                                         *)
(* A raw table is [ktype, extra, rows]: ktype is the dtype of the          *)
(* provider's code column, extra the labels of the columns the recipe      *)
(* neither drops nor renames, and each row is [lvl, code, val] where lvl   *)
(* tells whether the row passes the recipe's query (municipality level,    *)
(* and the 2010-01-01 date for IDHM).                                      *)
(***************************************************************************)
\* A bronze_fetch that returns the raw table although saving_step raised.
bronze_fetch_unsaved(fetched, save_ok) ==
    IF fetched = None THEN None
    ELSE fetched

\* bronze_fetch: fetched is the provider's answer (a raw table, or None when
\* the call raised); save_ok tells whether saving_step to Bronze succeeded.
bronze_fetch(fetched, save_ok) ==
    IF fetched = None THEN None
    ELSE IF ~save_ok THEN None
    ELSE fetched

IsMunicipality(r) == r.lvl

\* A silver_value whose GDP recipe cuts the fourth decimal off.
silver_value_truncate(filename, v, int_ok) ==
    CASE filename = "PIB_2010.parquet" ->
           IF v = NaN THEN NaN ELSE v \div 10
      [] filename = "RecCorr_2010.parquet" ->
           IF v = NaN THEN NaN ELSE RoundHalfEven10(v) * 10
      [] filename = "População_2010.parquet" ->
           IF int_ok THEN (v \div 1000) * 1000 ELSE v
      [] OTHER -> v

\* The value cell a recipe produces from the raw cell v; int_ok tells whether
\* the column-wide astype(int) of the population recipe succeeded.  A raw GDP
\* cell v counts 1e-7 thousands of R$: v * 1000 is v ten-thousandths of R$,
\* and round(3) leaves thousandths.
silver_value(filename, v, int_ok) ==
    CASE filename = "PIB_2010.parquet" ->
           IF v = NaN THEN NaN ELSE RoundHalfEven10(v)
      [] filename = "RecCorr_2010.parquet" ->
           IF v = NaN THEN NaN ELSE RoundHalfEven10(v) * 10
      [] filename = "População_2010.parquet" ->
           IF int_ok THEN (v \div 1000) * 1000 ELSE v
      [] OTHER -> v

\* silver_transform: the normalized table, or None when the recipe or the
\* saving_step to Silver raised.
silver_transform(transf_df, filename, save_ok) ==
    LET kept == SelectSeq(transf_df.rows, IsMunicipality)
        vcol == ValueColumn(filename)
        numeric == \A i \in DOMAIN kept : kept[i].val >= 0
        parsable == \A i \in DOMAIN kept : kept[i].val # Unparsable
        to_str == filename = "População_2010.parquet" /\ transf_df.ktype = "int"
        out == [cols |-> <<"CodMunIBGE", vcol>> \o transf_df.extra,
                ktype |-> IF filename = "População_2010.parquet"
                          THEN "str" ELSE transf_df.ktype,
                rows |-> [i \in DOMAIN kept |->
                    [c \in {"CodMunIBGE", vcol} \cup Range(transf_df.extra) |->
                        IF c = "CodMunIBGE"
                        THEN (IF to_str THEN Digits(kept[i].code) ELSE kept[i].code)
                        ELSE IF c = vcol
                        THEN silver_value(filename, kept[i].val, numeric)
                        ELSE 0]]]
    IN  IF filename \in {"PIB_2010.parquet", "RecCorr_2010.parquet"} /\ ~parsable
        THEN None
        ELSE IF ~save_ok THEN None
        ELSE out

(***************************************************************************)
(* gold_finish.                                                            *)
(***************************************************************************)
\* Labels of cols, those shared with other (the key excepted) suffixed.
Suffixed(cols, other, sfx) ==
    [i \in DOMAIN cols |->
        IF cols[i] # "CodMunIBGE" /\ cols[i] \in Range(other)
        THEN cols[i] \o sfx ELSE cols[i]]

NotKey(c) == c # "CodMunIBGE"

RECURSIVE Flatten(_)
Flatten(ss) == IF ss = <<>> THEN <<>> ELSE Head(ss) \o Flatten(Tail(ss))

\* left.merge(right, how = 'left', on = 'CodMunIBGE'); None when pandas raises.
merge(left, right) ==
    LET rc == SelectSeq(right.cols, NotKey)
        lcols == Suffixed(left.cols, right.cols, "_x")
        rcols == Suffixed(rc, left.cols, "_y")
        cols == lcols \o rcols
        joined(l, r) ==
            [c \in Range(cols) |->
                IF \E i \in DOMAIN lcols : lcols[i] = c
                THEN l[left.cols[CHOOSE i \in DOMAIN lcols : lcols[i] = c]]
                ELSE r[rc[CHOOSE j \in DOMAIN rcols : rcols[j] = c]]]
        nulls == [c \in Range(rc) |-> NaN]
        matches(l) ==
            IF left.ktype # right.ktype THEN <<>>
            ELSE LET Same(r) == r["CodMunIBGE"] = l["CodMunIBGE"]
                 IN  SelectSeq(right.rows, Same)
        rowsOf(l) ==
            IF matches(l) = <<>> THEN <<joined(l, nulls)>>
            ELSE [j \in DOMAIN matches(l) |-> joined(l, matches(l)[j])]
    IN  IF left.ktype # right.ktype /\ left.rows # <<>> /\ right.rows # <<>>
        THEN None
        ELSE IF HasDuplicates(cols) THEN None
        ELSE [cols |-> cols,
              ktype |-> left.ktype,
              rows |-> Flatten([i \in DOMAIN left.rows |-> rowsOf(left.rows[i])])]

RECURSIVE merge_loop(_, _, _)
\* The for loop of gold_finish over join_list[1:], entered with df and n
\* tables already coerced to str: the merged table (None when a merge raises)
\* and the number of tables coerced when the loop ends.
merge_loop(df, rest, n) ==
    IF rest = <<>> THEN [df |-> df, n |-> n]
    ELSE LET m == merge(df, astype_str(Head(rest)))
         IN  IF m = None THEN [df |-> None, n |-> n + 1]
             ELSE merge_loop(m, Tail(rest), n + 1)

\* A reindex that keeps the columns of df that labels does not name.
reindex_keep(df, labels) ==
    LET others == SelectSeq(df.cols, LAMBDA c : c \notin Range(labels))
    IN  [cols |-> labels \o others,
         ktype |-> df.ktype,
         rows |-> [i \in DOMAIN df.rows |->
                     [c \in Range(labels) \cup Range(others) |->
                         IF c \in Range(df.cols) THEN df.rows[i][c] ELSE NaN]]]

\* df.reindex(columns = labels)
reindex(df, labels) ==
    [cols |-> labels,
     ktype |-> df.ktype,
     rows |-> [i \in DOMAIN df.rows |->
                 [c \in Range(labels) |->
                     IF c \in Range(df.cols) THEN df.rows[i][c] ELSE NaN]]]

\* Inserts row r behind the rows whose code is not greater (stable).
InsertSorted(ktype, sorted, r) ==
    LET n == Cardinality({i \in DOMAIN sorted :
                 ~CodeLess(ktype, r["CodMunIBGE"], sorted[i]["CodMunIBGE"])})
    IN  SubSeq(sorted, 1, n) \o <<r>> \o SubSeq(sorted, n + 1, Len(sorted))

RECURSIVE SortRows(_, _)
SortRows(ktype, rows) ==
    IF rows = <<>> THEN <<>>
    ELSE InsertSorted(ktype, SortRows(ktype, SubSeq(rows, 1, Len(rows) - 1)),
                      rows[Len(rows)])

\* df.sort_values(by = 'CodMunIBGE')
sort_values(df) == [df EXCEPT !.rows = SortRows(df.ktype, df.rows)]

\* Series.div(other, fill_value = 0) on float cells: a missing operand counts
\* as 0 unless both are missing; the quotient n/d is kept as the pair (n, d),
\* so that d = 0 is float infinity (n > 0) or NaN (n = 0).
div(a, b) ==
    IF a = NaN /\ b = NaN THEN [n |-> 0, d |-> 0]
    ELSE [n |-> IF a = NaN THEN 0 ELSE a, d |-> IF b = NaN THEN 0 ELSE b]

\* data_status without the comparisons with 0.
data_status_notnull(row) ==
    IF /\ row["IDHM 2010"] # NaN
       /\ row["PIB 2010 (R$)"] # NaN
       /\ row["Receitas Correntes 2010 (R$)"] # NaN
    THEN "complete" ELSE "incomplete"

\* The np.where condition of data_status.
data_status(row) ==
    IF /\ row["IDHM 2010"] # NaN /\ row["IDHM 2010"] # 0
       /\ row["PIB 2010 (R$)"] # NaN /\ row["PIB 2010 (R$)"] # 0
       /\ row["Receitas Correntes 2010 (R$)"] # NaN
       /\ row["Receitas Correntes 2010 (R$)"] # 0
    THEN "complete" ELSE "incomplete"

\* The two derived columns of gold_finish.
derive(df) ==
    [cols |-> Append(df.cols, "data_status"),
     ktype |-> df.ktype,
     rows |-> [i \in DOMAIN df.rows |->
        [c \in Range(df.cols) \cup {"data_status"} |->
            IF c = "Carga Tributária Municipal 2010"
            THEN div(df.rows[i]["Receitas Correntes 2010 (R$)"],
                     df.rows[i]["PIB 2010 (R$)"])
            ELSE IF c = "data_status" THEN data_status(df.rows[i])
            ELSE df.rows[i][c]]]]

\* Lines 198-220 of gold_finish on the accumulator jl: df is the table built
\* (None when join_list[0] or a merge raises), n the number of tables of
\* join_list[1:] coerced to str in place.
build(jl) ==
    IF jl = <<>> THEN [df |-> None, n |-> 0]
    ELSE LET m == merge_loop(jl[1], Tail(jl), 0)
         IN  IF m.df = None THEN m
             ELSE [df |-> derive(sort_values(reindex(m.df, order_set))),
                   n |-> m.n]

\* The table gold_finish builds from the accumulator, or None.
unified(jl) == build(jl).df

\* A gold_finish that returns the table read back from the database.
gold_finish_readback(jl, statsv, goldv, dbv, io) ==
    LET b == build(jl)
        u == b.df
        jl2 == [i \in DOMAIN jl |->
                  IF i >= 2 /\ i <= b.n + 1 THEN astype_str(jl[i]) ELSE jl[i]]
        failed == u = None \/ io = "summary"
    IN  [ret |-> IF u # None /\ io = "ok"
                 THEN (IF dbv = None THEN u ELSE dbv) ELSE None,
         join_list |-> jl2,
         stats |-> IF failed THEN statsv ELSE TRUE,
         gold |-> IF failed \/ io = "gold" THEN goldv ELSE u,
         db |-> IF failed \/ io \in {"gold", "db"} THEN dbv
                ELSE IF dbv = None THEN u ELSE dbv,
         log |-> (IF failed THEN <<>> ELSE <<<<"stats", "summary">>>>)
                 \o (IF failed \/ io = "gold" THEN <<>>
                     ELSE <<<<"gold", "DescriptiveData.parquet">>>>)
                 \o (IF failed \/ io \in {"gold", "db"} \/ dbv # None THEN <<>>
                     ELSE <<<<"db", "df">>>>)]

\* gold_finish on accumulator jl with the database holding dbv; io names the
\* first store write that raises ("ok" when none does).  ret is the returned
\* value, join_list the accumulator after the in-place astype(str) of the
\* loop, stats / gold / db the stores after the call, log its store writes.
gold_finish(jl, statsv, goldv, dbv, io) ==
    LET b == build(jl)
        u == b.df
        jl2 == [i \in DOMAIN jl |->
                  IF i >= 2 /\ i <= b.n + 1 THEN astype_str(jl[i]) ELSE jl[i]]
        failed == u = None \/ io = "summary"
    IN  [ret |-> IF u # None /\ io = "ok" THEN u ELSE None,
         join_list |-> jl2,
         stats |-> IF failed THEN statsv ELSE TRUE,
         gold |-> IF failed \/ io = "gold" THEN goldv ELSE u,
         \* CREATE TABLE IF NOT EXISTS df AS SELECT * FROM df
         db |-> IF failed \/ io \in {"gold", "db"} THEN dbv
                ELSE IF dbv = None THEN u ELSE dbv,
         log |-> (IF failed THEN <<>> ELSE <<<<"stats", "summary">>>>)
                 \o (IF failed \/ io = "gold" THEN <<>>
                     ELSE <<<<"gold", "DescriptiveData.parquet">>>>)
                 \o (IF failed \/ io \in {"gold", "db"} \/ dbv # None THEN <<>>
                     ELSE <<<<"db", "df">>>>)]

\* A process_data that puts the normalized table in front of the accumulator.
process_data_prepend(jl, fetched, filename, bsave, ssave) ==
    LET bronze_df == bronze_fetch(fetched, bsave)
        silver_df == IF bronze_df # None
                     THEN silver_transform(bronze_df, filename, ssave)
                     ELSE None
    IN  [bronze_df |-> bronze_df,
         silver_df |-> silver_df,
         join_list |-> IF silver_df # None THEN <<silver_df>> \o jl ELSE jl]

\* process_data on accumulator jl: fetched is the provider's answer, bsave and
\* ssave tell whether the Bronze and Silver saving_step succeed.
process_data(jl, fetched, filename, bsave, ssave) ==
    LET bronze_df == bronze_fetch(fetched, bsave)
        silver_df == IF bronze_df # None
                     THEN silver_transform(bronze_df, filename, ssave)
                     ELSE None
    IN  [bronze_df |-> bronze_df,
         silver_df |-> silver_df,
         join_list |-> IF silver_df # None THEN Append(jl, silver_df) ELSE jl]

\* DataFetcher.fetch_data: SELECT * FROM df, None when DuckDB raises.
fetch_data(dbv, ok) == IF ok /\ dbv # None THEN dbv ELSE None

\* geodata.rename(columns = {'code_muni' : 'CodMunIBGE'})
rename_code_muni(g) ==
    [cols |-> [i \in DOMAIN g.cols |->
                 IF g.cols[i] = "code_muni" THEN "CodMunIBGE" ELSE g.cols[i]],
     ktype |-> g.ktype,
     rows |-> [i \in DOMAIN g.rows |->
                 [c \in (DOMAIN g.rows[i] \ {"code_muni"}) \cup {"CodMunIBGE"} |->
                     IF c = "CodMunIBGE" THEN g.rows[i]["code_muni"]
                     ELSE g.rows[i][c]]]]

\* data['CodMunIBGE'].astype(int)
astype_int(d) ==
    [cols |-> d.cols,
     ktype |-> "int",
     rows |-> [i \in DOMAIN d.rows |->
                 [d.rows[i] EXCEPT !["CodMunIBGE"] =
                     IF d.ktype = "str" THEN ToInt(@) ELSE @]]]

\* DataMerger.merge_data: the merged table; None stands for an exception,
\* which merge_data does not catch.
merge_data(d, g, ok) ==
    IF d = None \/ g = None \/ ~ok THEN None
    ELSE merge(astype_int(d), rename_code_muni(g))

(***************************************************************************)
(* Inputs of a run of main.                                                *)
(***************************************************************************)
\* A raw table of the provider for an artifact: one municipality row and one
\* row the query of the recipe filters out.
SampleRaw(filename) ==
    [ktype |-> "str",
     extra |-> IF filename \in {"Municípios.parquet", "IDHM_2010.parquet"}
               THEN <<>> ELSE <<"DAY">>,
     rows |-> <<[lvl |-> TRUE, code |-> <<2>>, val |-> 1000],
                [lvl |-> FALSE, code |-> <<1, 0>>, val |-> 2000]>>]

\* A PIB answer with a cell float() rejects.
BadRaw ==
    [ktype |-> "str", extra |-> <<>>,
     rows |-> <<[lvl |-> TRUE, code |-> <<2>>, val |-> Unparsable]>>]

\* What the provider may answer for an artifact (None: the call raised).
Fetches(filename) ==
    {None, SampleRaw(filename)}
        \cup (IF filename = "PIB_2010.parquet" THEN {BadRaw} ELSE {})

\* The table df an earlier run of main left in the database: that run
\* accumulated one GDP table with municipality 10.
PriorRunTable ==
    unified(<<silver_transform(
        [ktype |-> "str", extra |-> <<>>,
         rows |-> <<[lvl |-> TRUE, code |-> <<1, 0>>, val |-> 30]>>],
        "PIB_2010.parquet", TRUE)>>)

\* What fetch_geodata returns when geobr answers: code_muni, UF, geometry.
GeoTable ==
    [cols |-> <<"code_muni", "UF", "geometry">>,
     ktype |-> "int",
     rows |-> <<[c \in {"code_muni", "UF", "geometry"} |->
                   IF c = "code_muni" THEN 2 ELSE 1]>>]

(***************************************************************************)
(* State of a run of main.                                                 *)
(***************************************************************************)
VARIABLES
    pc,          \* the statement of main that runs next; "done" when main
                 \* returned, "raised in ..." when an exception left main
    k,           \* index in data_series of the next artifact to process
    join_list,   \* DataProcessor.join_list
    bronze,      \* Bronze folder: the artifacts written in this run
    silver,      \* Silver folder: the artifacts written in this run
    gold,        \* Gold folder, DescriptiveData.parquet
    stats,       \* the descriptive statistics file was written in this run
    db,          \* table df of the DuckDB database at db_path, or None
    df,          \* what gold_finish returned to main
    report,      \* analyze_data wrote the HTML report
    data,        \* what fetch_data returned to main
    geodata,     \* what fetch_geodata returned to main
    app_data,    \* what merge_data returned to main
    calls,       \* history: one record per process_data call (answered:
                 \* the provider returned a table; fetched: so did
                 \* bronze_fetch; bronze_df, silver_df: the two locals)
    gold_calls,  \* history: number of gold_finish calls
    log,         \* history: the store writes of the run, in order
    gold_io,     \* history: the store write that raised in gold_finish
                 \* ("ok": none, "" before the call)
    clean_data   \* maybev2v1.py: what its gold_finish returned to its main

vars == <<pc, k, join_list, bronze, silver, gold, stats, db, df, report,
          data, geodata, app_data, calls, gold_calls, log, gold_io, clean_data>>

Artifacts == Range(data_series)

Init ==
    /\ pc = "process_data"
    /\ k = 1
    /\ join_list = <<>>
    /\ bronze = {}
    /\ silver = {}
    /\ gold = None
    /\ stats = FALSE
    /\ db \in {None, PriorRunTable}
    /\ df = None
    /\ report = FALSE
    /\ data = None
    /\ geodata = None
    /\ app_data = None
    /\ calls = <<>>
    /\ gold_calls = 0
    /\ log = <<>>
    /\ gold_io = ""
    /\ clean_data = None

\* The DataProcessor and its stores after one process_data call made in the
\* state st = [join_list, bronze, silver, calls, log].
AfterCall(st, fetched, filename, bsave, ssave) ==
    LET r == process_data(st.join_list, fetched, filename, bsave, ssave)
        \* saving_step wrote the file: it was reached and did not raise
        wrote_b == fetched # None /\ bsave
        wrote_s == /\ r.bronze_df # None
                   /\ silver_transform(r.bronze_df, filename, TRUE) # None
                   /\ ssave
    IN  [join_list |-> r.join_list,
         bronze |-> IF wrote_b THEN st.bronze \cup {filename} ELSE st.bronze,
         silver |-> IF wrote_s THEN st.silver \cup {filename} ELSE st.silver,
         calls |-> Append(st.calls, [filename |-> filename,
                                     answered |-> fetched # None,
                                     fetched |-> r.bronze_df # None,
                                     bronze_df |-> r.bronze_df,
                                     silver_df |-> r.silver_df]),
         log |-> st.log
                   \o (IF wrote_b THEN <<<<"bronze", filename>>>> ELSE <<>>)
                   \o (IF wrote_s THEN <<<<"silver", filename>>>> ELSE <<>>)]

\* The process_data call of main for the next artifact of data_series, the
\* provider answering fetched and the two saving_step calls doing bsave, ssave.
ProcessDataWith(fetched, bsave, ssave) ==
    /\ pc = "process_data"
    /\ \E st \in {AfterCall([join_list |-> join_list, bronze |-> bronze,
                             silver |-> silver, calls |-> calls, log |-> log],
                            fetched, data_series[k], bsave, ssave)} :
          /\ join_list' = st.join_list
          /\ bronze' = st.bronze
          /\ silver' = st.silver
          /\ calls' = st.calls
          /\ log' = st.log
    /\ k' = k + 1
    /\ pc' = IF k = Len(data_series) THEN "finalize" ELSE "process_data"
    /\ UNCHANGED <<gold, stats, db, df, report, data, geodata, app_data,
                   gold_calls, gold_io, clean_data>>

\* main, lines 478-495: process_data for the next artifact of data_series.
ProcessData ==
    /\ pc = "process_data"
    /\ \E fetched \in Fetches(data_series[k]), bsave \in BOOLEAN, ssave \in BOOLEAN :
          ProcessDataWith(fetched, bsave, ssave)

\* main, line 497 with an empty join_list: nothing more runs.
SkipFinalize ==
    /\ pc = "finalize"
    /\ join_list = <<>>
    /\ pc' = "done"
    /\ UNCHANGED <<k, join_list, bronze, silver, gold, stats, db, df, report,
                   data, geodata, app_data, calls, gold_calls, log, gold_io,
                   clean_data>>

\* A main that calls gold_finish without testing join_list.
GoldFinishUnguarded(io) ==
    /\ pc = "finalize"
    /\ \E r \in {gold_finish(join_list, stats, gold, db, io)} :
         /\ df' = r.ret
         /\ join_list' = r.join_list
         /\ stats' = r.stats
         /\ gold' = r.gold
         /\ db' = r.db
         /\ log' = log \o r.log
    /\ gold_calls' = gold_calls + 1
    /\ gold_io' = io
    /\ pc' = "analyze_data"
    /\ UNCHANGED <<k, bronze, silver, report, data, geodata, app_data, calls,
                   clean_data>>

\* main, line 498: gold_finish('DescriptiveData.parquet'), io naming the
\* first store write of the call that raises ("ok": none).
GoldFinish(io) ==
    /\ pc = "finalize"
    /\ join_list # <<>>
    /\ \E r \in {gold_finish(join_list, stats, gold, db, io)} :
         /\ df' = r.ret
         /\ join_list' = r.join_list
         /\ stats' = r.stats
         /\ gold' = r.gold
         /\ db' = r.db
         /\ log' = log \o r.log
    /\ gold_calls' = gold_calls + 1
    /\ gold_io' = io
    /\ pc' = "analyze_data"
    /\ UNCHANGED <<k, bronze, silver, report, data, geodata, app_data, calls,
                   clean_data>>

\* main, line 499: analyze_data(df) catches every exception of the analysis.
AnalyzeData ==
    /\ pc = "analyze_data"
    /\ \E ok \in BOOLEAN : report' = (df # None /\ ok)
    /\ pc' = "Database"
    /\ UNCHANGED <<k, join_list, bronze, silver, gold, stats, db, df, data,
                   geodata, app_data, calls, gold_calls, log, gold_io,
                   clean_data>>

\* main, line 500: Database() installs the extensions and connects; it has
\* no exception handler.
DatabaseInit ==
    /\ pc = "Database"
    /\ \E ok \in BOOLEAN : pc' = IF ok THEN "fetch_data" ELSE "raised in Database"
    /\ UNCHANGED <<k, join_list, bronze, silver, gold, stats, db, df, report,
                   data, geodata, app_data, calls, gold_calls, log, gold_io,
                   clean_data>>

\* main, line 502: fetcher.fetch_data().
FetchData ==
    /\ pc = "fetch_data"
    /\ \E ok \in BOOLEAN : data' = fetch_data(db, ok)
    /\ pc' = "fetch_geodata"
    /\ UNCHANGED <<k, join_list, bronze, silver, gold, stats, db, df, report,
                   geodata, app_data, calls, gold_calls, log, gold_io,
                   clean_data>>

\* main, line 503: fetcher.fetch_geodata().
FetchGeodata ==
    /\ pc = "fetch_geodata"
    /\ geodata' \in {None, GeoTable}
    /\ pc' = "merge_data"
    /\ UNCHANGED <<k, join_list, bronze, silver, gold, stats, db, df, report,
                   data, app_data, calls, gold_calls, log, gold_io, clean_data>>

\* main, lines 504-506: DataMerger.merge_data(data, geodata, gold_folder).
MergeData ==
    /\ pc = "merge_data"
    /\ \E ok \in BOOLEAN :
         LET m == merge_data(data, geodata, ok)
         IN  /\ app_data' = m
             /\ pc' = IF m = None THEN "raised in merge_data" ELSE "done"
             /\ log' = IF m = None THEN log
                       ELSE Append(log, <<"gold", "AppData.parquet">>)
    /\ UNCHANGED <<k, join_list, bronze, silver, gold, stats, db, df, report,
                   data, geodata, calls, gold_calls, gold_io, clean_data>>

Next ==
    \/ ProcessData
    \/ SkipFinalize
    \/ \E io \in {"ok", "summary", "gold", "db"} : GoldFinish(io)
    \/ AnalyzeData
    \/ DatabaseInit
    \/ FetchData
    \/ FetchGeodata
    \/ MergeData

Spec == Init /\ [][Next]_vars

(***************************************************************************)
(* gold_finish as a function of the accumulator: the runs of main in which *)
(* every store write succeeds, started where line 497 tests join_list,     *)
(* for every vector of provider answers of three bounded classes.          *)
(* SpecGold is these runs up to the return of gold_finish.                 *)
(***************************************************************************)
\* Row structure: at most MaxTotalRows rows over the five raw tables.
MaxTotalRows == 5

\* Cell values: raw values 0 .. MaxVal hundredths (and the missing marker).
MaxVal == 2

\* The municipality codes of the raw tables ("2" sorts after "10" as text).
Codes == <<2, 10>>

RECURSIVE SumLens(_, _)
\* Rows in the first n tables of a vector of lengths (-1: no table).
SumLens(lens, n) ==
    IF n = 0 THEN 0
    ELSE SumLens(lens, n - 1) + (IF lens[n] > 0 THEN lens[n] ELSE 0)

\* The vectors of lengths of the raw tables (-1: the provider raised).
StructLens ==
    {l \in [DOMAIN data_series -> -1..MaxTotalRows] :
        SumLens(l, Len(data_series)) <= MaxTotalRows}

\* Answers differing in row structure: the str codes flat[..] dealt to tables
\* of lens[..] rows in order, the value of a table's j-th row being j.
StructAnswer(lens, flat) ==
    [s \in DOMAIN data_series |->
        IF lens[s] < 0 THEN None
        ELSE [ktype |-> "str", extra |-> <<>>,
              rows |-> [j \in 1..lens[s] |->
                  [lvl |-> TRUE,
                   code |-> Digits(Codes[flat[SumLens(lens, s - 1) + j]]),
                   val |-> 1000 * j]]]]

\* Answers differing in schema: code dtype and pass-through column.
SchemaAnswers ==
    [DOMAIN data_series ->
        {None} \cup
        {[ktype |-> kt, extra |-> ex,
          rows |-> <<[lvl |-> TRUE,
                      code |-> IF kt = "str" THEN Digits(Codes[1]) ELSE Codes[1],
                      val |-> 1000]>>] :
            kt \in {"str", "int"}, ex \in {<<>>, <<"DAY">>}}]

\* The raw values of the tables of CellAnswers.
CellValues(filename) ==
    IF filename \in {"População_2010.parquet", "Municípios.parquet"}
    THEN {10}
    ELSE {NaN} \cup {10 * y : y \in 0..MaxVal}

\* Answers differing in cell values: one row per table for the same code.
CellAnswer(vals) ==
    [s \in DOMAIN data_series |->
        IF vals[s] = Unparsable THEN None
        ELSE [ktype |-> "str", extra |-> <<>>,
              rows |-> <<[lvl |-> TRUE, code |-> Digits(Codes[1]),
                          val |-> vals[s]]>>]]

RECURSIVE Accumulate(_, _)
\* The DataProcessor after process_data ran for the first n artifacts with the
\* provider answers v, every saving_step succeeding.
Accumulate(v, n) ==
    IF n = 0
    THEN [join_list |-> <<>>,
          bronze |-> {},
          silver |-> {},
          calls |-> <<>>,
          log |-> <<>>]
    ELSE AfterCall(Accumulate(v, n - 1), v[n], data_series[n], TRUE, TRUE)

\* The state at line 497 of the run of main with provider answers v.
GoldStart(v) ==
    \E st \in {Accumulate(v, Len(data_series))} :
        /\ st.join_list # <<>>
        /\ pc = "finalize"
        /\ k = Len(data_series) + 1
        /\ join_list = st.join_list
        /\ bronze = st.bronze
        /\ silver = st.silver
        /\ calls = st.calls
        /\ log = st.log
        /\ gold = None
        /\ stats = FALSE
        /\ db = None
        /\ df = None
        /\ report = FALSE
        /\ data = None
        /\ geodata = None
        /\ app_data = None
        /\ gold_calls = 0
        /\ gold_io = ""
        /\ clean_data = None

InitGold ==
    \/ \E lens \in StructLens :
         \E flat \in [1..SumLens(lens, Len(data_series)) -> DOMAIN Codes] :
            GoldStart(StructAnswer(lens, flat))
    \/ \E v \in SchemaAnswers : GoldStart(v)
    \/ \E vals \in [DOMAIN data_series -> {Unparsable, NaN} \cup {10 * y : y \in 0..MaxVal}] :
         /\ \A s \in DOMAIN data_series :
               vals[s] \in {Unparsable} \cup CellValues(data_series[s])
         /\ GoldStart(CellAnswer(vals))

NextGold == GoldFinish("ok")

SpecGold == InitGold /\ [][NextGold]_vars

(***************************************************************************)
(* silver_transform on the GDP series: the first process_data call of      *)
(* main, for every bounded answer of the provider.                         *)
(***************************************************************************)
\* Rows of a raw GDP table.
MaxRawRows == 2

\* Raw GDP cells 0 .. MaxRawVal (in 1e-7 thousands of R$).
MaxRawVal == 12

\* The raw GDP cells: missing, unparsable text, the small values, and 12.5.
GdpRawValues == {NaN, Unparsable, 125000000} \cup 0..MaxRawVal

\* The raw GDP table of dtype kt whose j-th row has level l[j], value v[j].
RawGdp(kt, l, v) ==
    [ktype |-> kt, extra |-> <<>>,
     rows |-> [j \in DOMAIN v |->
        [lvl |-> l[j],
         code |-> LET c == Codes[((j - 1) % Len(Codes)) + 1]
                  IN  IF kt = "str" THEN Digits(c) ELSE c,
         val |-> v[j]]]]

NextSilver ==
    /\ pc = "process_data"
    /\ k = 1
    /\ \E n \in 1..MaxRawRows, kt \in {"str", "int"} :
         \E l \in [1..n -> BOOLEAN], v \in [1..n -> GdpRawValues] :
            ProcessDataWith(RawGdp(kt, l, v), TRUE, TRUE)

SpecSilver == Init /\ [][NextSilver]_vars

(***************************************************************************)
(* The earlier version of the pipeline (src/maybev2v1.py).  Its            *)
(* process_data and the shape of its normalized tables are those of        *)
(* backend.py; its gold_finish drops the rows with a null before it        *)
(* reindexes, has no data_status and no exception handler.  SpecV1 runs    *)
(* it on the accumulators of SpecGold; gold and stats stand for its gold   *)
(* and descriptive-analysis folders.                                       *)
(***************************************************************************)
\* merged_df.dropna(): the rows without a null in any column (the code of a
\* row is never null).
dropna(d) ==
    [d EXCEPT !.rows =
        SelectSeq(d.rows,
                  LAMBDA r : \A c \in Range(d.cols) : NotKey(c) => r[c] # NaN)]

\* The tax-burden column of maybev2v1.py gold_finish.
tax_burden(d) ==
    [d EXCEPT !.rows =
        [i \in DOMAIN d.rows |->
            [d.rows[i] EXCEPT !["Carga Tributária Municipal 2010"] =
                div(d.rows[i]["Receitas Correntes 2010 (R$)"],
                    d.rows[i]["PIB 2010 (R$)"])]]]

\* A maybev2v1.py gold_finish without the dropna.
gold_finish_v1_keepna(jl, io) ==
    LET m == merge_loop(jl[1], Tail(jl), 0)
        out == IF m.df = None THEN None
               ELSE tax_burden(sort_values(reindex(m.df, order_set)))
        raised == out = None \/ io # "ok"
    IN  [ret |-> IF raised THEN None ELSE out,
         raised |-> raised,
         join_list |-> [i \in DOMAIN jl |->
                          IF i >= 2 /\ i <= m.n + 1 THEN astype_str(jl[i])
                          ELSE jl[i]],
         stats |-> out # None /\ io # "summary",
         gold |-> IF raised THEN None ELSE out]

\* maybev2v1.py gold_finish on accumulator jl; io names the first step after
\* the derivation that raises (the summary file, a plot, the gold file; "ok":
\* none).  ret is the returned table; raised tells that an exception left the
\* function, which has no handler; join_list is the accumulator after the
\* call.
gold_finish_v1(jl, io) ==
    LET m == merge_loop(jl[1], Tail(jl), 0)
        out == IF m.df = None THEN None
               ELSE tax_burden(sort_values(reindex(dropna(m.df), order_set)))
        raised == out = None \/ io # "ok"
    IN  [ret |-> IF raised THEN None ELSE out,
         raised |-> raised,
         \* astype(str) in place on join_list[1:]; with a single table
         \* merged_df is join_list[0] itself and dropna(inplace) changes it
         join_list |-> [i \in DOMAIN jl |->
                          IF i >= 2 /\ i <= m.n + 1 THEN astype_str(jl[i])
                          ELSE IF Len(jl) = 1 THEN dropna(jl[i])
                          ELSE jl[i]],
         stats |-> out # None /\ io # "summary",
         gold |-> IF raised THEN None ELSE out]

\* maybev2v1.py main: clean_data = processor.gold_finish('CleanData.csv'),
\* called when join_list is not empty.
GoldFinishV1(io) ==
    /\ pc = "finalize"
    /\ join_list # <<>>
    /\ \E r \in {gold_finish_v1(join_list, io)} :
         /\ clean_data' = r.ret
         /\ join_list' = r.join_list
         /\ stats' = r.stats
         /\ gold' = r.gold
         /\ pc' = IF r.raised THEN "raised in gold_finish" ELSE "done"
    /\ gold_calls' = gold_calls + 1
    /\ gold_io' = io
    /\ UNCHANGED <<k, bronze, silver, db, df, report, data, geodata, app_data,
                   calls, log>>

NextV1 == \E io \in {"ok", "summary", "plot", "gold"} : GoldFinishV1(io)

SpecV1 == InitGold /\ [][NextV1]_vars

(***************************************************************************)
(* Properties.                                                             *)
(***************************************************************************)
Succeeded(c) == c.fetched /\ c.silver_df # None

\* The normalized tables of the process_data calls whose fetch and
\* normalization both returned a table, in call order.
Accumulated ==
    LET ok == SelectSeq(calls, Succeeded)
    IN  [i \in DOMAIN ok |-> ok[i].silver_df]

\* The municipality code of row i of the returned table, as text.
CodeText(i) ==
    IF df.ktype = "str" THEN df.rows[i]["CodMunIBGE"]
    ELSE Digits(df.rows[i]["CodMunIBGE"])

\* The orders in which the non-anchor tables can stand in join_list.
Orders(n) ==
    {p \in [1..n -> 1..n] : \A i, j \in 1..n : p[i] = p[j] => i = j}

\* C1: for every non-empty accumulator, the table gold_finish returns has
\* exactly as many rows as the first accumulated table.
C1_RowsOfAnchor ==
    df # None => Len(df.rows) = Len(Accumulated[1].rows)

\* C2: the rows of the table gold_finish returns are sorted ascending by
\* municipality code in lexicographic string order, and no code occurs in
\* more than one row.
C2_SortedUnique ==
    df # None =>
        \A i, j \in DOMAIN df.rows :
            i < j => LexLess(CodeText(i), CodeText(j))

\* C3: in every row of the returned table the tax-burden ratio is
\* revenue / gdp when gdp is non-zero and exactly 0 when gdp is 0 (stated for
\* the rows where revenue and gdp are both present).
C3_TaxBurden ==
    df # None =>
        \A i \in DOMAIN df.rows :
            LET rev == df.rows[i]["Receitas Correntes 2010 (R$)"]
                gdp == df.rows[i]["PIB 2010 (R$)"]
                t == df.rows[i]["Carga Tributária Municipal 2010"]
            IN  (rev # NaN /\ gdp # NaN) =>
                    IF gdp # 0
                    THEN t.d # 0 /\ t.n * gdp = rev * t.d
                    ELSE t.d # 0 /\ t.n = 0

\* C4: in every row of the returned table data_status is 'complete' exactly
\* when the IDHM, GDP and current-revenue values of the row are all non-null
\* and non-zero, and 'incomplete' otherwise.
C4_DataStatus ==
    df # None =>
        \A i \in DOMAIN df.rows :
            LET present(c) == df.rows[i][c] # NaN /\ df.rows[i][c] # 0
                all == /\ present("IDHM 2010")
                       /\ present("PIB 2010 (R$)")
                       /\ present("Receitas Correntes 2010 (R$)")
            IN  df.rows[i]["data_status"] = (IF all THEN "complete" ELSE "incomplete")

\* A returned table with a row that is incomplete only because its GDP is
\* zero: the IDHM and the revenue are present and non-zero.
C4_Witness ==
    /\ df # None
    /\ \E i \in DOMAIN df.rows :
          /\ df.rows[i]["data_status"] = "incomplete"
          /\ df.rows[i]["IDHM 2010"] > 0
          /\ df.rows[i]["Receitas Correntes 2010 (R$)"] > 0
          /\ df.rows[i]["PIB 2010 (R$)"] = 0

\* C5: gold_finish runs at most once per run of main, only after all five
\* artifacts were attempted and only with a non-empty join_list; when no
\* series succeeds the run ends without a unified table written to the gold
\* store or the database and without an exception.
C5_FinalizeOnce ==
    /\ gold_calls <= 1
    /\ gold_calls = 1 => (Len(calls) = Len(data_series) /\ Accumulated # <<>>)
    /\ (Len(calls) = Len(data_series) /\ Accumulated = <<>>) =>
          /\ pc \in {"finalize", "done"}
          /\ gold_calls = 0
          /\ gold = None
          /\ \A i \in DOMAIN log : log[i][1] \notin {"gold", "db"}

\* A run of main in which no series succeeded has ended.
C5_Witness ==
    /\ pc = "done"
    /\ Len(calls) = Len(data_series)
    /\ Accumulated = <<>>

\* C6: whatever the outcomes of the series fetches, normalizations, store
\* writes, gold_finish, analyze_data, fetch_data and fetch_geodata, no
\* exception propagates past main (Database() is not among the stages the
\* claim lets fail, so its own exception is left aside).
C6_NoExceptionEscapes == pc # "raised in merge_data"

\* C7: join_list is exactly the sequence, in configuration order, of the
\* normalized tables of the process_data calls whose fetch and normalization
\* both returned a table (gold_finish later coerces codes of its entries to
\* str in place, and changes nothing else).
C7_JoinList ==
    /\ \A i \in DOMAIN calls : calls[i].filename = data_series[i]
    /\ Len(join_list) = Len(Accumulated)
    /\ gold_calls = 0 => join_list = Accumulated
    /\ \A i \in DOMAIN join_list :
          IF join_list[i].ktype = Accumulated[i].ktype
          THEN join_list[i] = Accumulated[i]
          ELSE join_list[i] = astype_str(Accumulated[i])

\* All five calls made: one failed in the fetch, one in the normalization,
\* and at least two tables were accumulated.
C7_Witness ==
    /\ Len(calls) = Len(data_series)
    /\ \E i \in DOMAIN calls : ~calls[i].fetched
    /\ \E i \in DOMAIN calls : calls[i].fetched /\ calls[i].silver_df = None
    /\ Len(join_list) >= 2

\* C8: the table main hands to merge_data, read back by fetch_data, is the
\* unified table gold_finish returned in the same run.
C8_SameRunTable ==
    (pc = "merge_data" /\ df # None /\ data # None) => data = df

\* C9: with string-typed codes, gold_finish returns the same table for every
\* order of the non-anchor tables in join_list.
C9_OrderIndependent ==
    (df # None /\ \A i \in DOMAIN Accumulated : Accumulated[i].ktype = "str") =>
        \A p \in Orders(Len(Accumulated) - 1) :
            unified(<<Accumulated[1]>>
                    \o [i \in 1..(Len(Accumulated) - 1) |-> Accumulated[p[i] + 1]])
                = df

\* C10: the columns of the returned table are the declared schema followed by
\* data_status, every other column of the inputs is dropped, and the column
\* of a series no accumulated table supplies is null in every row.
C10_Schema ==
    df # None =>
        /\ df.cols = <<"CodMunIBGE", "Município", "Habitantes 2010", "IDHM 2010",
                       "Receitas Correntes 2010 (R$)", "PIB 2010 (R$)",
                       "Carga Tributária Municipal 2010", "data_status">>
        /\ \A i \in DOMAIN df.rows :
              /\ DOMAIN df.rows[i] = Range(df.cols)
              /\ \A f \in Artifacts :
                    (\A t \in DOMAIN Accumulated :
                        ValueColumn(f) \notin Range(Accumulated[t].cols))
                    => df.rows[i][ValueColumn(f)] = NaN

\* A table was returned for an accumulator with a pass-through column and
\* with a series missing.
C10_Witness ==
    /\ df # None
    /\ df.rows # <<>>
    /\ \E t \in DOMAIN Accumulated : "DAY" \in Range(Accumulated[t].cols)
    /\ Len(Accumulated) < Len(data_series)

\* The normalized table process_data got for the artifact filename (None when
\* the call was not made or returned no table).
SilverOf(filename) ==
    IF \E i \in DOMAIN calls : calls[i].filename = filename
    THEN calls[CHOOSE i \in DOMAIN calls : calls[i].filename = filename].silver_df
    ELSE None

\* The codes of table t, as text.
CodeTexts(t) ==
    {IF t.ktype = "str" THEN t.rows[i]["CodMunIBGE"]
     ELSE Digits(t.rows[i]["CodMunIBGE"]) : i \in DOMAIN t.rows}

\* C11: when gold_finish returns a table, every municipality code that is in
\* the normalized population table and not in the normalized GDP table has a
\* row in the unified table with non-null population and null GDP, marked
\* 'incomplete'.
C11_PopulationWithoutGdp ==
    LET pop == SilverOf("População_2010.parquet")
        gdp == SilverOf("PIB_2010.parquet")
    IN  (df # None /\ pop # None /\ gdp # None) =>
            \A c \in CodeTexts(pop) \ CodeTexts(gdp) :
                \E i \in DOMAIN df.rows :
                    /\ CodeText(i) = c
                    /\ df.rows[i]["Habitantes 2010"] # NaN
                    /\ df.rows[i]["PIB 2010 (R$)"] = NaN
                    /\ df.rows[i]["data_status"] = "incomplete"

\* C12: for every non-empty set of series that succeed, gold_finish (its
\* store writes succeeding) returns a unified table, not None.
C12_SubsetFinalizes ==
    (gold_calls = 1 /\ gold_io = "ok" /\ Accumulated # <<>>) => df # None

\* The rows of the raw table of call c that pass the query of the recipe.
Kept(c) == SelectSeq(calls[c].bronze_df.rows, IsMunicipality)

\* C13: when the raw GDP table has a municipality-level value that is not a
\* number, silver_transform still returns the normalized GDP table: that row
\* holds the missing marker, every other row its normalized value, and the
\* table is accumulated.
C13_UnparsableCoerced ==
    \A c \in DOMAIN calls :
        (/\ calls[c].filename = "PIB_2010.parquet"
         /\ calls[c].bronze_df # None
         /\ \E j \in DOMAIN Kept(c) : Kept(c)[j].val = Unparsable)
        =>  /\ calls[c].silver_df # None
            /\ Len(calls[c].silver_df.rows) = Len(Kept(c))
            /\ \A j \in DOMAIN Kept(c) :
                  calls[c].silver_df.rows[j]["PIB 2010 (R$)"] =
                      IF Kept(c)[j].val \in {Unparsable, NaN} THEN NaN
                      ELSE RoundHalfEven10(Kept(c)[j].val)
            /\ join_list # <<>>
            /\ join_list[Len(join_list)] = calls[c].silver_df

\* C16: every municipality-level raw GDP value v of a table silver_transform
\* normalizes becomes v * 1000 rounded to 3 decimals: the normalized cell r
\* (thousandths) is within half a thousandth of v (ten-thousandths), and
\* 12.5 becomes 12500.0.
C16_GdpScaled ==
    \A c \in DOMAIN calls :
        (calls[c].filename = "PIB_2010.parquet" /\ calls[c].silver_df # None) =>
            /\ Len(calls[c].silver_df.rows) = Len(Kept(c))
            /\ \A j \in DOMAIN Kept(c) :
                  LET v == Kept(c)[j].val
                      r == calls[c].silver_df.rows[j]["PIB 2010 (R$)"]
                  IN  v >= 0 =>
                        /\ r >= 0
                        /\ 10 * r - v \in -5..5
                        /\ v = 125000000 => r = 12500000

\* A normalized GDP table with the row of 12.5 and a row whose fourth decimal
\* was rounded up.
C16_Witness ==
    \E c \in DOMAIN calls :
        /\ calls[c].filename = "PIB_2010.parquet"
        /\ calls[c].silver_df # None
        /\ \E i, j \in DOMAIN Kept(c) :
              /\ Kept(c)[i].val = 125000000
              /\ calls[c].silver_df.rows[i]["PIB 2010 (R$)"] = 12500000
              /\ Kept(c)[j].val >= 0
              /\ Kept(c)[j].val % 10 > 5
              /\ calls[c].silver_df.rows[j]["PIB 2010 (R$)"] * 10 > Kept(c)[j].val

\* C14: the table a run returns from gold_finish is a function of the raw
\* tables and the failures of the run alone: every accumulated table is the
\* normalization of its raw table, and the returned value is what gold_finish
\* returns for the same accumulated tables and the same failure on empty
\* stores, whatever an earlier run left in the database.
C14_Deterministic ==
    /\ \A c \in DOMAIN calls :
          calls[c].silver_df # None =>
              calls[c].silver_df =
                  silver_transform(calls[c].bronze_df, calls[c].filename, TRUE)
    /\ gold_calls = 1 =>
          df = gold_finish(Accumulated, FALSE, None, None, gold_io).ret

\* gold_finish returned a table in a run that found the table of an earlier
\* run, with other data, in the database.
C14_Witness ==
    /\ gold_calls = 1
    /\ df # None
    /\ db # None
    /\ db # df

\* C17: a gold_finish call that returns None leaves the gold store and the
\* database as they were before the call.
C17_FailureWritesNothing ==
    [][(pc = "finalize" /\ pc' = "analyze_data" /\ df' = None)
          => (gold' = gold /\ db' = db)]_vars

RECURSIVE join_keys(_, _)
\* The dtypes of the code column of the two operands of each merge call of
\* the loop of gold_finish entered with the table acc, in call order.
join_keys(acc, rest) ==
    IF rest = <<>> THEN <<>>
    ELSE LET right == astype_str(Head(rest))
             m == merge(acc, right)
         IN  <<[left |-> acc.ktype, right |-> right.ktype]>>
                 \o (IF m = None THEN <<>> ELSE join_keys(m, Tail(rest)))

\* C15: at every left join gold_finish performs, the municipality-code column
\* of the left operand and of the right operand is string-typed.
C15_StringKeys ==
    gold_calls = 1 =>
        \A j \in DOMAIN join_keys(Accumulated[1], Tail(Accumulated)) :
            LET o == join_keys(Accumulated[1], Tail(Accumulated))[j]
            IN  o.left = "str" /\ o.right = "str"

\* The artifact a normalized table belongs to, told by its value column.
ArtifactOf(t) == CHOOSE f \in Artifacts : ValueColumn(f) \in Range(t.cols)

\* C18: in every reachable state each table of join_list belongs to an
\* artifact whose raw table was written to the bronze store and whose
\* normalized table was written to the silver store afterwards, in this run;
\* an artifact with either write missing has no table in join_list.
C18_StoredBeforeAccumulated ==
    /\ \A i \in DOMAIN join_list :
          \E a, b \in DOMAIN log :
              /\ a < b
              /\ log[a] = <<"bronze", ArtifactOf(join_list[i])>>
              /\ log[b] = <<"silver", ArtifactOf(join_list[i])>>
    /\ \A f \in Artifacts :
          (f \notin bronze \/ f \notin silver) =>
              \A i \in DOMAIN join_list : ArtifactOf(join_list[i]) # f

\* A run that accumulated a table and skipped two series: one whose raw table
\* arrived but whose bronze write failed, one whose recipe succeeded but whose
\* silver write failed.
C18_Witness ==
    /\ join_list # <<>>
    /\ \E c \in DOMAIN calls : calls[c].answered /\ ~calls[c].fetched
    /\ \E c \in DOMAIN calls :
          /\ calls[c].fetched
          /\ silver_transform(calls[c].bronze_df, calls[c].filename, TRUE) # None
          /\ calls[c].silver_df = None

\* The value columns of the declared schema that an accumulated table
\* supplies.
Supplied ==
    {c \in Range(order_set) :
        /\ NotKey(c)
        /\ \E t \in DOMAIN Accumulated : c \in Range(Accumulated[t].cols)}

====
